---------------------------- MODULE Spec2Model ----------------------------
(***************************************************************************)
(* Cosmic Morphodynamics (src/CMH.py): a two-field reaction-diffusion-     *)
(* advection integrator on a periodic N x N grid, driven by a matplotlib   *)
(* FuncAnimation.                                                          *)
(*                                                                         *)
(* Numbers.  The program computes in float32.  The model computes in       *)
(* fixed point: a field value v is the integer v * One, a coefficient c of *)
(* the parameter block is the integer c * Den, a map coordinate x is the   *)
(* integer x * CoordOne, and every product is rounded to the nearest unit  *)
(* (Rnd), as every float32 product is rounded to the nearest float.  Sums  *)
(* and differences of fixed-point numbers are exact.                       *)
(*                                                                         *)
(* Arrays.  An n x n array z is the function [0..n-1 -> [0..n-1 -> Int]],  *)
(* z[i][j] being numpy's z[i, j] (axis 0 = rows, axis 1 = columns).        *)
(***************************************************************************)
EXTENDS Integers, Naturals, Sequences, FiniteSets, TLC

VARIABLES
    par,             \* the parameter block (module constants, lines 29-48)
    frames,          \* simulate's argument `frames`
    with_advection,  \* simulate's argument `with_advection`
    pc,              \* where the program is
    drv,             \* what the animation driver is doing
    g,               \* the gas field (nonlocal g of update)
    r,               \* the radiation field (nonlocal r of update)
    coords,          \* the advection map, <<>> for None
    step,            \* the loop counter of `for _ in range(STEPS_PER_FRAME)`
    ticks,           \* completed calls of update
    saved,           \* frames grabbed by anim.save
    shown,           \* frames replayed by plt.show
    hist,            \* the operations update has executed in the current call
    mass0            \* sum of G + R right after initialize_fields

vars == <<par, frames, with_advection, pc, drv, g, r, coords, step, ticks,
          saved, shown, hist, mass0>>

---------------------------------------------------------------------------
(* Fixed-point resolution *)

\* units per 1.0 of a float32 field value
One == 10000

\* units per 1.0 of a coefficient written as a decimal literal
Den == 100

\* units per 1.0 of a float32 map coordinate
CoordOne == 100

\* float64 values of np.random.random per float32 unit: the draw is k / RandDen
RandPerUnit == 4

RandDen == One * RandPerUnit

(* Bounds of the model *)

\* grid size of the reduced runs
GridN == 3

\* seed radius of the reduced runs: the largest with 2 * seed_radius < GridN
SeedR == (GridN - 1) \div 2

\* largest grid of the end-to-end runs besides N itself
E2EMaxN == 30

\* largest `frames` argument
MaxFrames == 2

\* frames plt.show replays before the window is closed
MaxShowTicks == 1

---------------------------------------------------------------------------
(* Module parameters, lines 29-48 (coefficients in units of 1/Den) *)

N == 200
DT == 100
DIFF_G == 16
DIFF_R == 8
FEED == 4
KILL == 6
ETA == 100
ROTATION_STRENGTH == 5
STEPS_PER_FRAME == 8
SEED_RADIUS == 10
NOISE_LEVEL == 5

Defaults ==
    [n |-> N, dt |-> DT, diff_g |-> DIFF_G, diff_r |-> DIFF_R, feed |-> FEED,
     kill |-> KILL, eta |-> ETA, rot |-> ROTATION_STRENGTH,
     steps |-> STEPS_PER_FRAME, seed_radius |-> SEED_RADIUS,
     noise_level |-> NOISE_LEVEL]

---------------------------------------------------------------------------
(* Arithmetic *)

\* a / b rounded to the nearest integer (b > 0), halves up
Rnd(a, b) == (a + (b \div 2)) \div b

Abs(a) == IF a < 0 THEN -a ELSE a

Idx(n) == 0 .. (n - 1)

\* elementwise sum of two arrays
Add(a, b, n) == [i \in Idx(n) |-> [j \in Idx(n) |-> a[i][j] + b[i][j]]]

RECURSIVE SumRange(_, _, _)
\* f[lo] + ... + f[hi], summed by halves
SumRange(f, lo, hi) ==
    IF lo > hi THEN 0
    ELSE IF lo = hi THEN f[lo]
    ELSE LET mid == (lo + hi) \div 2
         IN  SumRange(f, lo, mid) + SumRange(f, mid + 1, hi)

\* sum of all cells of an n x n array
Total(z, n) == SumRange([i \in Idx(n) |-> SumRange(z[i], 0, n - 1)], 0, n - 1)

---------------------------------------------------------------------------
(* laplacian, lines 54-64 *)

\* RollRows without the wrap-around: the rows shifted in repeat the edge
RollRowsClamped(z, s, n) ==
    [i \in Idx(n) |-> IF i >= s THEN z[i - s] ELSE z[i]]

\* np.roll(z, s, axis=0) for 0 <= s < n: result[s:] = z[:n-s]; result[:s] = z[n-s:]
RollRows(z, s, n) ==
    [i \in Idx(n) |-> IF i >= s THEN z[i - s] ELSE z[n - s + i]]

\* RollCols without the wrap-around: the columns shifted in repeat the edge
RollColsClamped(z, s, n) ==
    [i \in Idx(n) |-> [j \in Idx(n) |->
        IF j >= s THEN z[i][j - s] ELSE z[i][j]]]

\* np.roll(z, s, axis=1) for 0 <= s < n
RollCols(z, s, n) ==
    [i \in Idx(n) |-> [j \in Idx(n) |->
        IF j >= s THEN z[i][j - s] ELSE z[i][n - s + j]]]

\* np.roll(z, shift, axis): the shift is reduced modulo the axis length
Roll(z, shift, axis, n) ==
    IF axis = 0 THEN RollRows(z, shift % n, n) ELSE RollCols(z, shift % n, n)

\* the stencil without its upper neighbour
laplacianThreeNeighbours(z, n) ==
    LET down  == Roll(z, -1, 0, n)
        left  == Roll(z, 1, 1, n)
        right == Roll(z, -1, 1, n)
    IN  [i \in Idx(n) |-> [j \in Idx(n) |->
            down[i][j] + left[i][j] + right[i][j] - 4 * z[i][j]]]

laplacian(z, n) ==
    LET up    == Roll(z, 1, 0, n)
        down  == Roll(z, -1, 0, n)
        left  == Roll(z, 1, 1, n)
        right == Roll(z, -1, 1, n)
    IN  [i \in Idx(n) |-> [j \in Idx(n) |->
            up[i][j] + down[i][j] + left[i][j] + right[i][j] - 4 * z[i][j]]]

---------------------------------------------------------------------------
(* the reaction sub-step, lines 188-199 *)

\* gr2 = ETA * g * (r * r)
Coupling(gz, rz, p) ==
    [i \in Idx(p.n) |-> [j \in Idx(p.n) |->
        Rnd(Rnd(p.eta * gz[i][j], Den) * Rnd(rz[i][j] * rz[i][j], One), One)]]

\* delta_g with the coupling term added instead of subtracted
DeltaGSignFlipped(gz, lap_g, gr2, p) ==
    [i \in Idx(p.n) |-> [j \in Idx(p.n) |->
        Rnd((Rnd(p.diff_g * lap_g[i][j], Den) + gr2[i][j]
             + Rnd(p.feed * (One - gz[i][j]), Den)) * p.dt, Den)]]

\* delta_g = (DIFF_G * lap_g - gr2 + FEED * (1.0 - g)) * DT
DeltaG(gz, lap_g, gr2, p) ==
    [i \in Idx(p.n) |-> [j \in Idx(p.n) |->
        Rnd((Rnd(p.diff_g * lap_g[i][j], Den) - gr2[i][j]
             + Rnd(p.feed * (One - gz[i][j]), Den)) * p.dt, Den)]]

\* delta_r = (DIFF_R * lap_r + gr2 - (FEED + KILL) * r) * DT
DeltaR(rz, lap_r, gr2, p) ==
    [i \in Idx(p.n) |-> [j \in Idx(p.n) |->
        Rnd((Rnd(p.diff_r * lap_r[i][j], Den) + gr2[i][j]
             - Rnd((p.feed + p.kill) * rz[i][j], Den)) * p.dt, Den)]]

\* the loop body with g updated before delta_r is computed
ReactionStepInPlace(gz, rz, p) ==
    LET lap_g   == laplacian(gz, p.n)
        gr2     == Coupling(gz, rz, p)
        g1      == Add(gz, DeltaG(gz, lap_g, gr2, p), p.n)
        lap_r   == laplacian(rz, p.n)
        gr2b    == Coupling(g1, rz, p)
        delta_r == DeltaR(rz, lap_r, gr2b, p)
    IN  <<g1, Add(rz, delta_r, p.n)>>

\* one pass of the loop body: the pair <<g, r>> after g += delta_g; r += delta_r
ReactionStep(gz, rz, p) ==
    LET lap_g   == laplacian(gz, p.n)
        lap_r   == laplacian(rz, p.n)
        gr2     == Coupling(gz, rz, p)
        delta_g == DeltaG(gz, lap_g, gr2, p)
        delta_r == DeltaR(rz, lap_r, gr2, p)
    IN  <<Add(gz, delta_g, p.n), Add(rz, delta_r, p.n)>>

---------------------------------------------------------------------------
(* initialize_fields, lines 109-130 *)

\* the values written into the seed block, in units of 1/Den (lines 124, 125)
SEED_G == 50
SEED_R == 25

\* a[start:stop] on an axis of length n: the indices Python's slice selects
SliceNorm(k, n) ==
    IF k < 0 THEN (IF k + n < 0 THEN 0 ELSE k + n) ELSE (IF k > n THEN n ELSE k)

SliceIdx(start, stop, n) ==
    {i \in Idx(n) : SliceNorm(start, n) <= i /\ i < SliceNorm(stop, n)}

\* np.random.random(): k / RandDen, and .astype(np.float32): the nearest float32
AsFloat32(k) == Rnd(k, RandPerUnit)

\* the draws TLC tries for one cell: the smallest, a middle and the largest
\* value of np.random.random()
RandSamples == {0, RandDen \div 2, RandDen - 1}

\* the arrays np.random.random((n, n)) the model tries: at most one cell draws
\* a non-zero sample.  With noise_level = 0 every draw gives the same fields,
\* and one draw stands for all.
Draws(p) ==
    LET zero == [i \in Idx(p.n) |-> [j \in Idx(p.n) |-> 0]]
    IN  IF p.noise_level = 0 THEN {zero}
        ELSE {zero} \cup
             {[zero EXCEPT ![c[1]][c[2]] = k] :
                c \in Idx(p.n) \X Idx(p.n), k \in RandSamples \ {0}}

\* the pair <<g, r>> initialize_fields(n, seed_radius, noise_level) returns
\* when np.random.random((n, n)) returns u
initialize_fields(p, u) ==
    LET n      == p.n
        center == n \div 2
        sl     == SliceIdx(center - p.seed_radius, center + p.seed_radius, n)
        g0     == [i \in Idx(n) |-> [j \in Idx(n) |->
                      IF i \in sl /\ j \in sl THEN Rnd(SEED_G * One, Den) ELSE One]]
        r0     == [i \in Idx(n) |-> [j \in Idx(n) |->
                      IF i \in sl /\ j \in sl THEN Rnd(SEED_R * One, Den) ELSE 0]]
        noise  == [i \in Idx(n) |-> [j \in Idx(n) |->
                      Rnd(AsFloat32(u[i][j]) * p.noise_level, Den)]]
    IN  <<g0, Add(r0, noise, n)>>

---------------------------------------------------------------------------
(* build_keplerian_coords, lines 77-106 *)

RECURSIVE SqrtBetween(_, _, _)
\* the largest s in lo .. hi-1 with s * s <= x, given lo * lo <= x < hi * hi
SqrtBetween(x, lo, hi) ==
    IF hi - lo <= 1 THEN lo
    ELSE LET mid == (lo + hi) \div 2
         IN  IF mid * mid <= x THEN SqrtBetween(x, mid, hi)
             ELSE SqrtBetween(x, lo, mid)

\* np.sqrt of x / CoordOne^2, in units of 1/CoordOne, to the nearest unit
Sqrt(x) ==
    LET s == SqrtBetween(x, 0, 46341)
    IN  IF x - s * s > s THEN s + 1 ELSE s

\* np.cos and np.sin of t / CoordOne, in units of 1/CoordOne (power series)
Cos(t) ==
    CoordOne - Rnd(t * t, 2 * CoordOne)
             + Rnd(t * t * t * t, 24 * CoordOne * CoordOne * CoordOne)

Sin(t) == t - Rnd(t * t * t, 6 * CoordOne * CoordOne)

\* the map without the rotation and without the centre added back
build_keplerian_coords_uncentred(n, rotation_strength) ==
    LET center == n \div 2
        dx(i, j) == j - center
        dy(i, j) == i - center
        x_warp == [i \in Idx(n) |-> [j \in Idx(n) |-> dx(i, j) * CoordOne]]
        y_warp == [i \in Idx(n) |-> [j \in Idx(n) |-> dy(i, j) * CoordOne]]
    IN  <<y_warp, x_warp>>

\* coords = np.array([y_warp, x_warp]): <<y_warp, x_warp>>
build_keplerian_coords(n, rotation_strength) ==
    LET center == n \div 2
        dx(i, j) == j - center
        dy(i, j) == i - center
        rr(i, j) ==
            LET d == Sqrt((dx(i, j) * dx(i, j) + dy(i, j) * dy(i, j))
                          * CoordOne * CoordOne)
            IN  IF d = 0 THEN CoordOne ELSE d
        theta(i, j) ==
            Rnd(rotation_strength * Rnd(CoordOne * CoordOne, rr(i, j)), Den)
        x_warp == [i \in Idx(n) |-> [j \in Idx(n) |->
                      dx(i, j) * Cos(theta(i, j)) - dy(i, j) * Sin(theta(i, j))
                      + center * CoordOne]]
        y_warp == [i \in Idx(n) |-> [j \in Idx(n) |->
                      dx(i, j) * Sin(theta(i, j)) + dy(i, j) * Cos(theta(i, j))
                      + center * CoordOne]]
    IN  <<y_warp, x_warp>>

---------------------------------------------------------------------------
(* map_coordinates(z, coords, order=1, mode="wrap"), lines 183-184 *)

\* mode="wrap": a coordinate outside [0, n-1] is brought back with period n-1
WrapCoord(c, n) ==
    LET sz == (n - 1) * CoordOne
    IN  IF c < 0 THEN (IF n <= 1 THEN 0 ELSE c + sz * (((-c) \div sz) + 1))
        ELSE IF c > sz THEN (IF n <= 1 THEN 0 ELSE c - sz * (c \div sz))
        ELSE c

\* order=1: linear interpolation between floor(c) and floor(c) + 1 on each
\* axis.  floor(c) + 1 = n only for c = n - 1, where its weight is 0.
Interpolate(z, cy, cx, n) ==
    LET y  == WrapCoord(cy, n)
        x  == WrapCoord(cx, n)
        y0 == y \div CoordOne
        x0 == x \div CoordOne
        y1 == (y0 + 1) % n
        x1 == (x0 + 1) % n
        fy == y - y0 * CoordOne
        fx == x - x0 * CoordOne
    IN  Rnd((CoordOne - fy) * (CoordOne - fx) * z[y0][x0]
            + (CoordOne - fy) * fx * z[y0][x1]
            + fy * (CoordOne - fx) * z[y1][x0]
            + fy * fx * z[y1][x1], CoordOne * CoordOne)

\* the output has the shape of coords[0]: one sample per destination cell
map_coordinates(z, c, n) ==
    [i \in Idx(n) |-> [j \in Idx(n) |-> Interpolate(z, c[1][i][j], c[2][i][j], n)]]

---------------------------------------------------------------------------
(* simulate, lines 162-212, and the driver of __main__, lines 215-221 *)

\* lines 173-176 and 205-212: the fields, the map, the figure, the animation
Simulate ==
    /\ pc = "uninit"
    /\ \E u \in Draws(par) :
          LET f == initialize_fields(par, u)
          IN  /\ g' = f[1]
              /\ r' = f[2]
              /\ mass0' = Total(f[1], par.n) + Total(f[2], par.n)
    /\ coords' = IF with_advection
                 THEN build_keplerian_coords(par.n, par.rot)
                 ELSE <<>>
    /\ pc' = "idle"
    /\ drv' = "new"
    /\ UNCHANGED <<par, frames, with_advection, step, ticks, saved, shown, hist>>

\* update is entered: line 182 chooses the advection or goes to the loop
CallUpdate ==
    /\ pc' = IF coords # <<>> THEN "advect" ELSE "react"
    /\ step' = 0
    /\ hist' = <<>>
    /\ UNCHANGED <<par, frames, with_advection, g, r, coords, ticks, saved,
                   shown, mass0>>

\* anim.save (line 219) first draws the initial frame: FuncAnimation was given
\* no init_func, so the initial frame is drawn by calling update on the first
\* item of the frame sequence
SaveInitDraw ==
    /\ pc = "idle"
    /\ drv = "new"
    /\ drv' = "init_draw"
    /\ CallUpdate

\* anim.save then calls update once for each of the `frames` frames (line 208)
SaveFrame ==
    /\ pc = "idle"
    /\ drv \in {"init_draw", "saving"}
    /\ saved < frames
    /\ drv' = "saving"
    /\ CallUpdate

\* anim.save returns when the frame sequence is exhausted
SaveReturn ==
    /\ pc = "idle"
    /\ drv = "saving"
    /\ saved = frames
    /\ drv' = "saved"
    /\ UNCHANGED <<par, frames, with_advection, pc, g, r, coords, step, ticks,
                   saved, shown, hist, mass0>>

\* plt.show (line 221) with an interactive backend replays the animation
\* until the window is closed
ShowFrame ==
    /\ pc = "idle"
    /\ drv \in {"saved", "showing"}
    /\ shown < MaxShowTicks
    /\ drv' = "showing"
    /\ CallUpdate

\* plt.show returns: at once without a display, else when the window is closed
ShowClose ==
    /\ pc = "idle"
    /\ drv \in {"saved", "showing"}
    /\ pc' = "done"
    /\ drv' = "closed"
    /\ UNCHANGED <<par, frames, with_advection, g, r, coords, step, ticks,
                   saved, shown, hist, mass0>>

\* lines 182-184: both fields are resampled through the same map
Advect ==
    /\ pc = "advect"
    /\ g' = map_coordinates(g, coords, par.n)
    /\ r' = map_coordinates(r, coords, par.n)
    /\ hist' = hist \o <<"advect_g", "advect_r">>
    /\ pc' = "react"
    /\ UNCHANGED <<par, frames, with_advection, drv, coords, step, ticks,
                   saved, shown, mass0>>

\* the loop body with the advection inside the loop
SubStepAdvecting ==
    /\ pc = "react"
    /\ step < par.steps
    /\ LET ga == IF coords # <<>> THEN map_coordinates(g, coords, par.n) ELSE g
           ra == IF coords # <<>> THEN map_coordinates(r, coords, par.n) ELSE r
           f  == ReactionStep(ga, ra, par)
       IN  g' = f[1] /\ r' = f[2]
    /\ step' = step + 1
    /\ hist' = IF coords # <<>>
               THEN hist \o <<"advect_g", "advect_r", "react">>
               ELSE Append(hist, "react")
    /\ UNCHANGED <<par, frames, with_advection, pc, drv, coords, ticks, saved,
                   shown, mass0>>

\* lines 187-199: one pass of the loop body
SubStep ==
    /\ pc = "react"
    /\ step < par.steps
    /\ LET f == ReactionStep(g, r, par)
       IN  g' = f[1] /\ r' = f[2]
    /\ step' = step + 1
    /\ hist' = Append(hist, "react")
    /\ UNCHANGED <<par, frames, with_advection, pc, drv, coords, ticks, saved,
                   shown, mass0>>

\* lines 201-203: the loop is over, the images are set, update returns
Render ==
    /\ pc = "react"
    /\ step = par.steps
    /\ pc' = "idle"
    /\ ticks' = ticks + 1
    /\ saved' = IF drv = "saving" THEN saved + 1 ELSE saved
    /\ shown' = IF drv = "showing" THEN shown + 1 ELSE shown
    /\ UNCHANGED <<par, frames, with_advection, drv, g, r, coords, step, hist,
                   mass0>>

Start(p, fr, adv) ==
    /\ par = p
    /\ frames = fr
    /\ with_advection = adv
    /\ pc = "uninit"
    /\ drv = "none"
    /\ g = <<>>
    /\ r = <<>>
    /\ coords = <<>>
    /\ step = 0
    /\ ticks = 0
    /\ saved = 0
    /\ shown = 0
    /\ hist = <<>>
    /\ mass0 = 0

\* the program on the reduced grid: simulate(frames, with_advection), then
\* anim.save and plt.show
Init ==
    \E fr \in 1 .. MaxFrames, adv \in BOOLEAN :
        Start([Defaults EXCEPT !.n = GridN, !.seed_radius = SeedR], fr, adv)

Next ==
    \/ Simulate
    \/ SaveInitDraw
    \/ SaveFrame
    \/ SaveReturn
    \/ ShowFrame
    \/ ShowClose
    \/ Advect
    \/ SubStep
    \/ Render

Spec == Init /\ [][Next]_vars

---------------------------------------------------------------------------
(* Properties of the reduced-grid program (Spec) *)

Cells(n) == Idx(n) \X Idx(n)

Built == pc # "uninit"

\* the five-point stencil at cell (i, j) of z, indices taken modulo n
Stencil(z, i, j, n) ==
    z[(i - 1) % n][j] + z[(i + 1) % n][j] + z[i][(j - 1) % n]
    + z[i][(j + 1) % n] - 4 * z[i][j]

IsStencilOf(l, z, n) == \A c \in Cells(n) : l[c[1]][c[2]] = Stencil(z, c[1], c[2], n)

\* C1: for every field the program holds, laplacian(Z)[i,j] is
\* Z[i-1,j] + Z[i+1,j] + Z[i,j-1] + Z[i,j+1] - 4 Z[i,j] with the indices taken
\* modulo N, all read from the input field: row and column 0 have row and
\* column N-1 as predecessor, row and column N-1 have row and column 0 as
\* successor.
C1_LaplacianIsPeriodicStencil ==
    Built => /\ IsStencilOf(laplacian(g, par.n), g, par.n)
             /\ IsStencilOf(laplacian(r, par.n), r, par.n)
             /\ \A j \in Idx(par.n) :
                   LET l == laplacian(g, par.n)
                       m == par.n - 1
                   IN  /\ l[0][j] = g[m][j] + g[1 % par.n][j] + g[0][(j - 1) % par.n]
                                    + g[0][(j + 1) % par.n] - 4 * g[0][j]
                       /\ l[j][m] = g[(j - 1) % par.n][m] + g[(j + 1) % par.n][m]
                                    + g[j][(m - 1) % par.n] + g[j][0] - 4 * g[j][m]

\* a field whose first and last rows differ, so that the wrap-around decides
\* the value of the Laplacian on the edge
C1_Witness ==
    /\ pc = "react"
    /\ step > 0
    /\ \E j \in Idx(par.n) : g[0][j] # g[par.n - 1][j] /\ g[par.n - 1][j] # g[1][j]
    /\ \E c \in Cells(par.n) : laplacian(g, par.n)[c[1]][c[2]] # 0

\* C2: the sum of laplacian(Z) over all N*N cells is 0, for every field the
\* program holds.
C2_LaplacianSumsToZero ==
    Built => /\ Total(laplacian(g, par.n), par.n) = 0
             /\ Total(laplacian(r, par.n), par.n) = 0

\* a field whose Laplacian is not zero everywhere and whose first and last
\* columns differ
C2_Witness ==
    /\ Built
    /\ \E c \in Cells(par.n) : laplacian(r, par.n)[c[1]][c[2]] > 0
    /\ \E i \in Idx(par.n) : r[i][0] # r[i][par.n - 1]

IsPrefix(s, t) == Len(s) <= Len(t) /\ SubSeq(t, 1, Len(s)) = s

\* what one call of update executes, in order
ExpectedOps ==
    (IF with_advection THEN <<"advect_g", "advect_r">> ELSE <<>>)
    \o [k \in 1 .. par.steps |-> "react"]

\* C4: a call of update executes, in this order, one advection of G and one
\* of R when advection is enabled and none when the map is None, then
\* exactly steps_per_frame reaction sub-steps; at every moment what it has
\* executed is a prefix of that sequence.
C4_TickIsOrdered ==
    /\ IsPrefix(hist, ExpectedOps)
    /\ pc = "react" => Len(SelectSeq(hist, LAMBDA o : o = "react")) = step
    /\ (pc \in {"idle", "done"} /\ ticks > 0) => hist = ExpectedOps

\* a completed call with advection: two advections, then all the sub-steps
C4_Witness ==
    /\ pc = "idle"
    /\ ticks = 2
    /\ with_advection
    /\ hist = <<"advect_g", "advect_r">> \o [k \in 1 .. STEPS_PER_FRAME |-> "react"]

\* the coupling term and the two deltas of cell (i, j), from the fields gz, rz
CellGr2(gz, rz, i, j, p) ==
    Rnd(Rnd(p.eta * gz[i][j], Den) * Rnd(rz[i][j] * rz[i][j], One), One)

CellDeltaG(gz, rz, i, j, p) ==
    Rnd((Rnd(p.diff_g * Stencil(gz, i, j, p.n), Den) - CellGr2(gz, rz, i, j, p)
         + Rnd(p.feed * (One - gz[i][j]), Den)) * p.dt, Den)

CellDeltaR(gz, rz, i, j, p) ==
    Rnd((Rnd(p.diff_r * Stencil(rz, i, j, p.n), Den) + CellGr2(gz, rz, i, j, p)
         - Rnd((p.feed + p.kill) * rz[i][j], Den)) * p.dt, Den)

\* C9: a reaction sub-step is synchronous: at every cell the new G and the
\* new R are the old value plus a delta computed from the G and R of the
\* start of the sub-step (both Laplacians and the coupling term included).
C9_SubStepIsSynchronous ==
    [][(pc = "react" /\ step' = step + 1) =>
          \A c \in Cells(par.n) :
              /\ g'[c[1]][c[2]] = g[c[1]][c[2]] + CellDeltaG(g, r, c[1], c[2], par)
              /\ r'[c[1]][c[2]] = r[c[1]][c[2]] + CellDeltaR(g, r, c[1], c[2], par)]_vars

\* a sub-step has run and, from the fields it left, an update that used the
\* new G for delta_R would give another R
C9_Witness ==
    /\ pc = "react"
    /\ step > 0
    /\ step < par.steps
    /\ ReactionStepInPlace(g, r, par) # ReactionStep(g, r, par)

\* what initialize_fields promises, in field units
Half == Rnd(SEED_G * One, Den)
Quarter == Rnd(SEED_R * One, Den)
NoiseUnits(p) == Rnd(p.noise_level * One, Den)

\* C5: initialize(n, seed_radius, noise_level) with 2 * seed_radius < n
\* returns G = 0.5 on the centred block of side 2 * seed_radius and exactly
\* 1.0 elsewhere, and R in [0.25, 0.25 + noise_level) on the block and in
\* [0, noise_level) elsewhere.
C5_InitialFields ==
    (pc = "idle" /\ drv = "new" /\ 2 * par.seed_radius < par.n) =>
        LET center == par.n \div 2
            block  == {i \in Idx(par.n) :
                          center - par.seed_radius <= i /\ i < center + par.seed_radius}
        IN  /\ Cardinality(block) = 2 * par.seed_radius
            /\ \A c \in Cells(par.n) :
                  IF c[1] \in block /\ c[2] \in block
                  THEN /\ g[c[1]][c[2]] = Half
                       /\ Quarter <= r[c[1]][c[2]]
                       /\ r[c[1]][c[2]] < Quarter + NoiseUnits(par)
                  ELSE /\ g[c[1]][c[2]] = One
                       /\ 0 <= r[c[1]][c[2]]
                       /\ r[c[1]][c[2]] < NoiseUnits(par)

\* C10: the fields and, if enabled, the map exist before update is first
\* called, and a run started with `frames` ends after exactly `frames` calls
\* of update.
C10_RunsExactlyFramesTicks ==
    /\ (pc \in {"idle", "advect", "react", "done"}) =>
          /\ DOMAIN g = Idx(par.n)
          /\ DOMAIN r = Idx(par.n)
          /\ with_advection => coords # <<>>
    /\ pc = "uninit" => ticks = 0
    /\ ticks <= frames
    /\ pc = "done" => ticks = frames

---------------------------------------------------------------------------
(* Zero rotation: build_keplerian_coords(n, 0) on grids of every size up   *)
(* to GridN                                                                *)

InitIdentity ==
    \E m \in 1 .. GridN, fr \in 1 .. MaxFrames :
        Start([Defaults EXCEPT !.n = m, !.seed_radius = SeedR, !.rot = 0], fr, TRUE)

SpecIdentity == InitIdentity /\ [][Next]_vars

\* C6: for rotation_strength = 0 the map is the identity, row_src[i,j] = i
\* and col_src[i,j] = j at every cell, the centre (where r is replaced by 1)
\* included, and advecting a field through it returns the field.
C6_ZeroRotationIsIdentity ==
    Built => /\ \A c \in Cells(par.n) :
                   /\ coords[1][c[1]][c[2]] = c[1] * CoordOne
                   /\ coords[2][c[1]][c[2]] = c[2] * CoordOne
             /\ map_coordinates(g, coords, par.n) = g
             /\ map_coordinates(r, coords, par.n) = r

\* update has advected fields that several sub-steps had changed, on a grid
\* with a centre cell and an edge
C6_Witness ==
    /\ pc = "react"
    /\ step = 0
    /\ ticks > 0
    /\ hist = <<"advect_g", "advect_r">>
    /\ par.n = GridN
    /\ \E c \in Cells(par.n) : g[c[1]][c[2]] # g[0][0]

---------------------------------------------------------------------------
(* Pure diffusion: feed = kill = 0, eta = 0, advection disabled *)

\* the actions of a run without advection that ends when anim.save returns
\* and plt.show has no display
NextRD ==
    \/ Simulate
    \/ SaveInitDraw
    \/ SaveFrame
    \/ SaveReturn
    \/ ShowClose
    \/ SubStep
    \/ Render

DiffusionChoices == {0, DIFF_R, DIFF_G, Den}
DtChoices == {DT \div 2, DT}
StepChoices == {1, 2}

\* whole coefficients make the explicit scheme unstable: those runs take one
\* sub-step per call, which keeps the fields within TLC's 32-bit integers
InitDiffusion ==
    \E a \in DtChoices, b \in DiffusionChoices, c \in DiffusionChoices,
       s \in StepChoices :
        /\ (b = Den \/ c = Den) => s = 1
        /\ Start([Defaults EXCEPT !.n = GridN, !.seed_radius = SeedR,
                                  !.feed = 0, !.kill = 0, !.eta = 0, !.dt = a,
                                  !.diff_g = b, !.diff_r = c, !.steps = s],
                 1, FALSE)

SpecDiffusion == InitDiffusion /\ [][NextRD]_vars

Mass == Total(g, par.n) + Total(r, par.n)

\* no product of the sub-step is rounded: the coefficients are whole numbers
ExactArithmetic(p) == p.dt % Den = 0 /\ p.diff_g % Den = 0 /\ p.diff_r % Den = 0

SubStepsDone == ticks * par.steps + step

---------------------------------------------------------------------------
(* End to end: the default parameters, no noise, no advection, on every    *)
(* grid from the smallest that holds the seed block to E2EMaxN, and on N   *)

E2ESizes == ((2 * SEED_RADIUS + 1) .. E2EMaxN) \cup {N}

InitE2E ==
    \E m \in E2ESizes :
        Start([Defaults EXCEPT !.n = m, !.noise_level = 0], 1, FALSE)

SpecE2E == InitE2E /\ [][NextRD]_vars

\* C8: with the default parameters, advection disabled and a noise-free
\* initial state, G at the centre cell after exactly one call of update is
\* strictly below its initial value 0.5.
C8_CentreGasDecreases ==
    (pc = "idle" /\ ticks = 1) => g[par.n \div 2][par.n \div 2] < Half

\* the run on the N x N grid has completed its first call
C8_Witness ==
    /\ pc = "idle"
    /\ ticks = 1
    /\ par = [Defaults EXCEPT !.noise_level = 0]
    /\ ~with_advection
    /\ g[N \div 2][N \div 2] < Half

===========================================================================
